---- MODULE Spec2Model ----
(***************************************************************************)
(* Model of ofx/Parser.py: the regex-driven TreeBuilder that turns OFX tag *)
(* soup into a tree of Elements, Element._flatten, which collapses a       *)
(* subtree into one dictionary, and Element.convert, which hands that      *)
(* dictionary to the aggregate class named after the tag.                  *)
(*                                                                         *)
(* Strings are Python strings.  The tree is the sequence of the Elements   *)
(* created so far, in creation (= document) order; an Element's children   *)
(* are the Elements whose parent it is, in that order.                     *)
(***************************************************************************)
EXTENDS Integers, Sequences, FiniteSets, TLC

VARIABLES
    doc,        \* the documents parsed: [vocab, single, maxNodes]
    nodes,      \* every Element created: [tag, text, tail, parent]
    _elem,      \* TreeBuilder._elem: the stack of open Elements
    _last,      \* TreeBuilder._last: the last Element opened or closed (0: None)
    _tail,      \* TreeBuilder._tail: true after an end tag
    _data,      \* TreeBuilder._data: the text collected and not yet flushed
    pc,         \* "feeding", "parsed", "failed", "flattened", "converted"
    err,        \* the class of the exception that ended a call, or "none"
    msg,        \* its message
    _root,      \* OFXTree._root (0: the attribute is not set)
    flat,       \* what _flatten returned: [err, map]
    conv        \* what convert did: [err, msg, calls, nodes]

vars == <<doc, nodes, _elem, _last, _tail, _data, pc, err, msg,
          _root, flat, conv>>

----------------------------------------------------------------------------
(* Bounds of the model.                                                    *)

\* Elements a document of the builder specification may create.
MaxNodes == 4

\* Elements a document of the flatten and convert specifications may create.
MaxTreeNodes == 5

----------------------------------------------------------------------------
(* Python values.                                                          *)

\* Python's None, where a string is expected ("<" is in no tag and no text).
None == "<None>"

\* The empty dict.
EmptyDict == [k \in {} |-> ""]

\* s[i], 1-based.
Char(s, i) == SubSeq(s, i, i)

\* str.startswith
startswith(s, p) == Len(s) >= Len(p) /\ SubSeq(s, 1, Len(p)) = p

\* sub in s
Contains(s, sub) ==
    \E i \in 1..(Len(s) - Len(sub) + 1) : SubSeq(s, i, i + Len(sub) - 1) = sub

Whitespace == {" ", "\n", "\t", "\r"}

\* str.strip(): drop the leading and the trailing whitespace.
RECURSIVE lstrip(_)
lstrip(s) ==
    IF Len(s) > 0 /\ Char(s, 1) \in Whitespace
    THEN lstrip(SubSeq(s, 2, Len(s))) ELSE s

RECURSIVE rstrip(_)
rstrip(s) ==
    IF Len(s) > 0 /\ Char(s, Len(s)) \in Whitespace
    THEN rstrip(SubSeq(s, 1, Len(s) - 1)) ELSE s

strip(s) == rstrip(lstrip(s))

Upper == <<"A","B","C","D","E","F","G","H","I","J","K","L","M",
           "N","O","P","Q","R","S","T","U","V","W","X","Y","Z">>
Lower == <<"a","b","c","d","e","f","g","h","i","j","k","l","m",
           "n","o","p","q","r","s","t","u","v","w","x","y","z">>

lowerChar(c) ==
    IF \E i \in 1..26 : Upper[i] = c
    THEN Lower[CHOOSE i \in 1..26 : Upper[i] = c] ELSE c

\* str.lower(): letters are lowered, every other character is kept.
RECURSIVE lower(_)
lower(s) ==
    IF Len(s) = 0 THEN s
    ELSE lowerChar(Char(s, 1)) \o lower(SubSeq(s, 2, Len(s)))

\* "".join(list)
RECURSIVE join(_)
join(list) == IF list = <<>> THEN "" ELSE Head(list) \o join(Tail(list))

\* d.update(e): e's entries win.
update(d, e) == e @@ d

----------------------------------------------------------------------------
(* The tree.                                                               *)

\* ET.Element(tag, {}), appended to its parent (0: it has none).
Element(tag, parent) ==
    [tag |-> tag, text |-> None, tail |-> None, parent |-> parent]

\* list(elem): the children of Element n in tree ns, in document order.
RECURSIVE childrenFrom(_, _, _)
childrenFrom(ns, n, i) ==
    IF i > Len(ns) THEN <<>>
    ELSE IF ns[i].parent = n THEN <<i>> \o childrenFrom(ns, n, i + 1)
    ELSE childrenFrom(ns, n, i + 1)

children(ns, n) == childrenFrom(ns, n, 1)

----------------------------------------------------------------------------
(* xml.etree.ElementTree.TreeBuilder, which TreeBuilder extends.  A        *)
(* builder is the record of its fields; a raised exception is recorded in  *)
(* err and msg, and every later call of the same handler is skipped.       *)

Builder == [nodes |-> nodes, elem |-> _elem, last |-> _last, tail |-> _tail,
            data |-> _data, err |-> err, msg |-> msg]

raise(b, class, message) == [b EXCEPT !.err = class, !.msg = message]

\* ET.TreeBuilder._flush: hand the collected text to the last Element.
_flush(b) ==
    IF b.err # "none" \/ b.data = <<>> THEN b
    ELSE IF b.last = 0 THEN [b EXCEPT !.data = <<>>]
    ELSE IF b.tail
         THEN IF b.nodes[b.last].tail # None
              THEN raise(b, "AssertionError", "internal error (tail)")
              ELSE [b EXCEPT !.nodes[b.last].tail = join(b.data), !.data = <<>>]
         ELSE IF b.nodes[b.last].text # None
              THEN raise(b, "AssertionError", "internal error (text)")
              ELSE [b EXCEPT !.nodes[b.last].text = join(b.data), !.data = <<>>]

\* ET.TreeBuilder.data
data(b, text) ==
    IF b.err # "none" THEN b ELSE [b EXCEPT !.data = Append(b.data, text)]

\* start with the new Element put under the last Element made or ended.
startUnderLast(b, tag) ==
    LET f == _flush(b)
        id == Len(f.nodes) + 1
    IN  IF f.err # "none" THEN f
        ELSE [f EXCEPT !.nodes = Append(f.nodes, Element(tag, f.last)),
                       !.last = id,
                       !.elem = Append(f.elem, id),
                       !.tail = FALSE]

\* start with the new Element left off the stack.
startNoPush(b, tag) ==
    LET f == _flush(b)
        id == Len(f.nodes) + 1
        parent == IF f.elem # <<>> THEN f.elem[Len(f.elem)] ELSE 0
    IN  IF f.err # "none" THEN f
        ELSE [f EXCEPT !.nodes = Append(f.nodes, Element(tag, parent)),
                       !.last = id,
                       !.tail = FALSE]

\* ET.TreeBuilder.start: a new Element under the top of the stack, pushed.
start(b, tag) ==
    LET f == _flush(b)
        id == Len(f.nodes) + 1
        parent == IF f.elem # <<>> THEN f.elem[Len(f.elem)] ELSE 0
    IN  IF f.err # "none" THEN f
        ELSE [f EXCEPT !.nodes = Append(f.nodes, Element(tag, parent)),
                       !.last = id,
                       !.elem = Append(f.elem, id),
                       !.tail = FALSE]

\* ET.TreeBuilder.end: pop the top of the stack; its tag must be the one ended.
ETend(b, tag) ==
    LET f == _flush(b)
        top == f.elem[Len(f.elem)]
        popped == [f EXCEPT !.elem = SubSeq(f.elem, 1, Len(f.elem) - 1),
                            !.last = top]
    IN  IF f.err # "none" THEN f
        ELSE IF f.elem = <<>>
             THEN raise(f, "IndexError", "pop from empty list")
        ELSE IF f.nodes[top].tag # tag
             THEN raise(popped, "AssertionError",
                        "end tag mismatch (expected " \o f.nodes[top].tag
                            \o ", got " \o tag \o ")")
        ELSE [popped EXCEPT !.tail = TRUE]

\* close with no look at the stack.
closeUnchecked(b) ==
    IF b.last = 0
    THEN raise(b, "AssertionError", "missing toplevel element")
    ELSE b

\* ET.TreeBuilder.close
close(b) ==
    IF Len(b.elem) # 0 THEN raise(b, "AssertionError", "missing end tags")
    ELSE IF b.last = 0
         THEN raise(b, "AssertionError", "missing toplevel element")
    ELSE b

----------------------------------------------------------------------------
(* TreeBuilder                                                             *)

\* end with every AssertionError of the base class turned into a ParseError.
endAllParseErrors(b, tag) ==
    LET r == ETend(b, tag)
    IN  IF b.err # "none" THEN b
        ELSE IF r.err = "AssertionError" THEN raise(r, "ParseError", r.msg)
        ELSE r

\* TreeBuilder.end: an end tag mismatch is a ParseError, every other
\* AssertionError of the base class is passed on.
end(b, tag) ==
    LET r == ETend(b, tag)
    IN  IF b.err # "none" THEN b
        ELSE IF r.err = "AssertionError"
             THEN IF Contains(r.msg, "end tag mismatch")
                  THEN raise(r, "ParseError", r.msg)
                  ELSE r
        ELSE r

\* try: self.end(tag) / except ParseError: the closing tag joins the message.
endOrReraise(b, endtag, tag) ==
    LET r == end(b, endtag)
    IN  IF r.err = "ParseError"
        THEN raise(r, "ParseError", r.msg \o " </" \o tag \o ">")
        ELSE r

\* The closing fragment the regex captures after <tag>.
closeTagOf(tag) == "</" \o tag \o ">"

\* What TreeBuilder.regex can match out of a document written with v: the
\* groups TAG, TEXT and the closing fragment </TAG>, the last two optional.
Matches(v) ==
    { [TAG |-> p[1], TEXT |-> p[2], closeTag |-> None] : p \in v }
    \cup { [TAG |-> p[1], TEXT |-> p[2], closeTag |-> closeTagOf(p[1])] : p \in v }

\* feedMatch with a data leaf ended only by its closing fragment.
feedMatchLeafStaysOpen(b, m) ==
    LET tag == m.TAG
        text == strip(IF m.TEXT = None THEN "" ELSE m.TEXT)
    IN  IF Len(text) > 0
        THEN IF startswith(tag, "/")
             THEN raise(b, "ParseError",
                        "<" \o tag \o "> is a closing tag, but has trailing text: '"
                            \o text \o "'")
             ELSE IF m.closeTag # None
                  THEN endOrReraise(data(start(b, tag), text), tag, tag)
                  ELSE _flush(data(start(b, tag), text))
        ELSE IF startswith(tag, "/")
             THEN endOrReraise(b, SubSeq(tag, 2, Len(tag)), tag)
             ELSE IF m.closeTag # None
                  THEN endOrReraise(start(b, tag), tag, tag)
                  ELSE start(b, tag)

\* feedMatch with the closing tag looked at before the text.
feedMatchClosesFirst(b, m) ==
    LET tag == m.TAG
        text == strip(IF m.TEXT = None THEN "" ELSE m.TEXT)
    IN  IF startswith(tag, "/")
        THEN LET r == endOrReraise(b, SubSeq(tag, 2, Len(tag)), tag)
             IN  IF r.err = "none" /\ Len(text) > 0
                 THEN raise(r, "ParseError",
                        "<" \o tag \o "> is a closing tag, but has trailing text: '"
                            \o text \o "'")
                 ELSE r
        ELSE IF Len(text) > 0
             THEN endOrReraise(data(start(b, tag), text), tag, tag)
             ELSE IF m.closeTag # None
                  THEN endOrReraise(start(b, tag), tag, tag)
                  ELSE start(b, tag)

\* feedMatch with the closing fragment of an aggregate ignored.
feedMatchIgnoresCloseTag(b, m) ==
    LET tag == m.TAG
        text == strip(IF m.TEXT = None THEN "" ELSE m.TEXT)
    IN  IF Len(text) > 0
        THEN IF startswith(tag, "/")
             THEN raise(b, "ParseError",
                        "<" \o tag \o "> is a closing tag, but has trailing text: '"
                            \o text \o "'")
             ELSE endOrReraise(data(start(b, tag), text), tag, tag)
        ELSE IF startswith(tag, "/")
             THEN endOrReraise(b, SubSeq(tag, 2, Len(tag)), tag)
             ELSE start(b, tag)

\* feedMatch with the text of a data leaf stored as matched.
feedMatchRawText(b, m) ==
    LET tag == m.TAG
        text == strip(IF m.TEXT = None THEN "" ELSE m.TEXT)
    IN  IF Len(text) > 0
        THEN IF startswith(tag, "/")
             THEN raise(b, "ParseError",
                        "<" \o tag \o "> is a closing tag, but has trailing text: '"
                            \o text \o "'")
             ELSE endOrReraise(data(start(b, tag), m.TEXT), tag, tag)
        ELSE IF startswith(tag, "/")
             THEN endOrReraise(b, SubSeq(tag, 2, Len(tag)), tag)
             ELSE IF m.closeTag # None
                  THEN IF m.closeTag # closeTagOf(tag)
                       THEN raise(start(b, tag), "AssertionError", "")
                       ELSE endOrReraise(start(b, tag), tag, tag)
                  ELSE start(b, tag)

\* feedMatch with the text of the match classified as matched, blanks and
\* all.
feedMatchBlankIsText(b, m) ==
    LET tag == m.TAG
        text == IF m.TEXT = None THEN "" ELSE m.TEXT
    IN  IF Len(text) > 0
        THEN IF startswith(tag, "/")
             THEN raise(b, "ParseError",
                        "<" \o tag \o "> is a closing tag, but has trailing text: '"
                            \o text \o "'")
             ELSE endOrReraise(data(start(b, tag), text), tag, tag)
        ELSE IF startswith(tag, "/")
             THEN endOrReraise(b, SubSeq(tag, 2, Len(tag)), tag)
             ELSE IF m.closeTag # None
                  THEN IF m.closeTag # closeTagOf(tag)
                       THEN raise(start(b, tag), "AssertionError", "")
                       ELSE endOrReraise(start(b, tag), tag, tag)
                  ELSE start(b, tag)

\* The body of the loop of TreeBuilder.feed, for one match.
feedMatch(b, m) ==
    LET tag == m.TAG
        text == strip(IF m.TEXT = None THEN "" ELSE m.TEXT)
    IN  IF Len(text) > 0
        THEN IF startswith(tag, "/")
             THEN raise(b, "ParseError",
                        "<" \o tag \o "> is a closing tag, but has trailing text: '"
                            \o text \o "'")
             ELSE endOrReraise(data(start(b, tag), text), tag, tag)
        ELSE IF startswith(tag, "/")
             THEN endOrReraise(b, SubSeq(tag, 2, Len(tag)), tag)
             ELSE IF m.closeTag # None
                  THEN IF m.closeTag # closeTagOf(tag)
                       THEN raise(start(b, tag), "AssertionError", "")
                       ELSE endOrReraise(start(b, tag), tag, tag)
                  ELSE start(b, tag)

----------------------------------------------------------------------------
(* Element._flatten                                                        *)

\* The text of an Element as _flatten reads it: (child.text or '').strip()
dataOf(ns, c) == strip(IF ns[c].text = None THEN "" ELSE ns[c].text)

\* flattenLeaf with the private tags kept.
flattenLeafKeepsPrivate(acc, tag, text) ==
    IF tag \in DOMAIN acc.leaves
    THEN [acc EXCEPT !.err = "AssertionError"]
    ELSE [acc EXCEPT !.leaves = update(acc.leaves, lower(tag) :> text)]

\* The branch of the loop for a data-bearing leaf; acc is [aggs, leaves, err].
flattenLeaf(acc, tag, text) ==
    IF tag \in DOMAIN acc.leaves
    THEN [acc EXCEPT !.err = "AssertionError"]
    ELSE IF ~Contains(tag, ".")
         THEN [acc EXCEPT !.leaves = update(acc.leaves, lower(tag) :> text)]
         ELSE acc

\* The branch of the loop for an aggregate, whose own _flatten returned sub.
flattenAggregate(acc, tag, sub) ==
    IF tag \in DOMAIN acc.aggs
    THEN [acc EXCEPT !.err = "AssertionError"]
    ELSE IF sub.err # "none"
         THEN [acc EXCEPT !.err = sub.err]
         ELSE [acc EXCEPT !.aggs = update(acc.aggs, sub.map)]

\* flattenMerge with the check of the keys left out.
flattenMergeUnchecked(acc) ==
    IF acc.err # "none" THEN [err |-> acc.err, map |-> EmptyDict]
    ELSE [err |-> "none", map |-> update(acc.leaves, acc.aggs)]

\* After the loop: no key of aggs may be a key of leaves; then merge.
flattenMerge(acc) ==
    IF acc.err # "none" THEN [err |-> acc.err, map |-> EmptyDict]
    ELSE IF \E key \in DOMAIN acc.aggs : key \in DOMAIN acc.leaves
         THEN [err |-> "AssertionError", map |-> EmptyDict]
         ELSE [err |-> "none", map |-> update(acc.leaves, acc.aggs)]

RECURSIVE _flatten(_, _)
RECURSIVE flattenLoop(_, _, _)

\* for child in self: ..., over the children kids still to visit.
flattenLoop(ns, kids, acc) ==
    IF kids = <<>> \/ acc.err # "none" THEN acc
    ELSE LET child == Head(kids)
             tag == ns[child].tag
             text == dataOf(ns, child)
         IN  flattenLoop(ns, Tail(kids),
                 IF text # ""
                 THEN flattenLeaf(acc, tag, text)
                 ELSE flattenAggregate(acc, tag, _flatten(ns, child)))

\* Element._flatten: [err, map].
_flatten(ns, n) ==
    flattenMerge(flattenLoop(ns, children(ns, n),
                             [aggs |-> EmptyDict, leaves |-> EmptyDict,
                              err |-> "none"]))

----------------------------------------------------------------------------
(* The aggregates module, which Element.convert looks the tag up in.       *)

\* The tags aggregates has a class for.
aggregates ==
    {"STMTTRN", "CURRENCY", "ORIGCURRENCY", "MFINFO", "PORTION", "FIPORTION"}

\* The classes that are subclasses of aggregates.ORIGCURRENCY.
ORIGCURRENCY == {"ORIGCURRENCY", "STMTTRN"}

----------------------------------------------------------------------------
(* Element.convert                                                         *)

\* self.find('./TAG'): the first child called tag (0: None).
findChild(ns, n, tag) ==
    LET hits == SelectSeq(children(ns, n), LAMBDA c : ns[c].tag = tag)
    IN  IF hits = <<>> THEN 0 ELSE Head(hits)

\* self.find('*/TAG'): the first child of a child called tag (0: None).
RECURSIVE findInEach(_, _, _)
findInEach(ns, kids, tag) ==
    IF kids = <<>> THEN 0
    ELSE IF findChild(ns, Head(kids), tag) # 0
         THEN findChild(ns, Head(kids), tag)
         ELSE findInEach(ns, Tail(kids), tag)

findGrandchild(ns, n, tag) == findInEach(ns, children(ns, n), tag)

\* self.remove(child): the child is no longer in the tree.
remove(ns, child) == [ns EXCEPT ![child].parent = -1]

\* The curtype convert adds for a class of the ORIGCURRENCY family:
\* [err, curtype].
curtypeOf(ns, n) ==
    LET currency == findGrandchild(ns, n, "CURRENCY")
        origcurrency == findGrandchild(ns, n, "ORIGCURRENCY")
    IN  IF currency # 0 /\ origcurrency # 0
        THEN [err |-> "ParseError", curtype |-> None]
        ELSE IF currency # 0
             THEN [err |-> "none", curtype |-> ns[currency].tag]
        ELSE IF origcurrency # 0
             THEN [err |-> "none", curtype |-> ns[origcurrency].tag]
        ELSE [err |-> "none", curtype |-> None]

\* The Elements convert on Element n calls an aggregate class for, when
\* nothing fails: n and, under an MFINFO, the items of its lists.
RECURSIVE constructed(_, _)
constructed(ns, n) ==
    LET lists == { l \in {findChild(ns, n, "MFASSETCLASS"),
                          findChild(ns, n, "FIMFASSETCLASS")} : l # 0 }
        items == { p \in 1..Len(ns) : ns[p].parent \in lists }
    IN  {n} \cup (IF ns[n].tag = "MFINFO"
                  THEN UNION { constructed(ns, p) : p \in items } ELSE {})

\* A conversion in progress: the tree, the calls made of aggregate classes,
\* the exception raised if any, the aggregates returned so far, and the
\* strict the caller passed to the outermost convert (True by default).
Conversion(ns) ==
    [nodes |-> ns, calls |-> <<>>, err |-> "none", msg |-> "", objs |-> <<>>,
     strict |-> TRUE]

\* AggregateClass(strict=strict, **attributes); the class rejects the
\* attributes of Element bad, and accepts all others.
construct(cs, n, strict, attributes, lists, bad) ==
    LET call == [node |-> n, tag |-> cs.nodes[n].tag, strict |-> strict,
                 attributes |-> attributes]
        made == [cs EXCEPT !.calls = Append(cs.calls, call)]
    IN  IF n = bad
        THEN [made EXCEPT !.err = "ValueError", !.msg = "validation"]
        ELSE [made EXCEPT !.objs = Append(cs.objs, [call |-> call,
                                                    lists |-> lists])]

RECURSIVE convert(_, _, _, _)
RECURSIVE convertEach(_, _, _)

\* [p.convert() for p in list]: cs.objs collects the results.
convertEach(cs, items, bad) ==
    IF items = <<>> \/ cs.err # "none" THEN cs
    ELSE convertEach(convert(cs, Head(items), TRUE, bad), Tail(items), bad)

\* if list is not None: self.<name> = [p.convert() for p in list];
\* self.remove(list).  r is [cs, lists]; lists maps the name to the list.
stripList(r, name, list, bad) ==
    LET done == convertEach([r.cs EXCEPT !.objs = <<>>],
                            children(r.cs.nodes, list), bad)
    IN  IF list = 0 \/ r.cs.err # "none" THEN r
        ELSE IF done.err # "none"
             THEN [r EXCEPT !.cs = [done EXCEPT !.objs = r.cs.objs]]
        ELSE [cs |-> [done EXCEPT !.objs = r.cs.objs,
                                  !.nodes = remove(done.nodes, list)],
              lists |-> (name :> done.objs) @@ r.lists]

\* Element.convert on Element n of cs.nodes; the result is appended to
\* cs.objs.
convert(cs, n, strict, bad) ==
    LET tag == cs.nodes[n].tag
        mfassetclass == findChild(cs.nodes, n, "MFASSETCLASS")
        fimfassetclass == findChild(cs.nodes, n, "FIMFASSETCLASS")
        start0 == [cs |-> cs, lists |-> EmptyDict]
        stripped ==
            IF tag = "MFINFO"
            THEN stripList(stripList(start0, "mfassetclass", mfassetclass, bad),
                           "fimfassetclass", fimfassetclass, bad)
            ELSE start0
        s == stripped.cs
        attributes == _flatten(s.nodes, n)
        cur == curtypeOf(s.nodes, n)
    IN  IF s.err # "none" THEN s
        ELSE IF attributes.err # "none"
             THEN [s EXCEPT !.err = attributes.err, !.msg = "_flatten"]
        ELSE IF tag \notin aggregates
             THEN [s EXCEPT !.err = "AttributeError", !.msg = tag]
        ELSE IF tag \in ORIGCURRENCY
             THEN IF cur.err # "none"
                  THEN [s EXCEPT !.err = cur.err,
                          !.msg = "<" \o tag \o
                             "> may not contain both <CURRENCY> and <ORIGCURRENCY>"]
                  ELSE construct(s, n, strict,
                                 update(attributes.map, "curtype" :> cur.curtype),
                                 stripped.lists, bad)
        ELSE construct(s, n, strict, attributes.map, stripped.lists, bad)

----------------------------------------------------------------------------
(* The documents parsed: the (TAG, TEXT) pairs they are written with,      *)
(* whether they hold one top-level element only, and how many Elements     *)
(* they may create.                                                        *)

\* Plain tag soup: two tags, their closing tags and a closing tag of no
\* name, each with no text, with blank text and with text to strip.
BuildVocab == {"A", "B", "/A", "/B", "/"} \X {None, " ", " 1\n"}

\* Leaves with a tag of letters and with a tag of digits, aggregates with a
\* tag of letters and with a tag of digits, and their closing tags.
FlattenVocab ==
    {<<"B", "1">>, <<"B", "2">>, <<"1", "3">>,
     <<"A", None>>, <<"1", None>>, <<"/A", None>>, <<"/1", None>>}

\* A leaf, a leaf with a private tag, an aggregate and its closing tag.
PrivateVocab ==
    {<<"B", "1">>, <<"I.X", "2">>, <<"I.X", "3">>, <<"A", None>>, <<"/A", None>>}

\* A transaction, the two currency aggregates and a leaf of theirs.
CurrencyVocab ==
    {<<"STMTTRN", None>>, <<"CURRENCY", None>>, <<"ORIGCURRENCY", None>>,
     <<"/STMTTRN", None>>, <<"/CURRENCY", None>>, <<"/ORIGCURRENCY", None>>,
     <<"CURSYM", "USD">>}

\* A fund, its two lists and an item of theirs.
ListVocab ==
    {<<"MFINFO", None>>, <<"MFASSETCLASS", None>>, <<"FIMFASSETCLASS", None>>,
     <<"PORTION", None>>, <<"/MFINFO", None>>, <<"/MFASSETCLASS", None>>,
     <<"/FIMFASSETCLASS", None>>, <<"/PORTION", None>>}

\* Any tag soup of BuildVocab.
BuildDocs == [vocab |-> BuildVocab, single |-> FALSE, maxNodes |-> MaxNodes]

\* The documents _flatten and convert are checked on hold one top-level
\* element: neither reads an Element outside the subtree it is called on.
TreeDocs(v) == [vocab |-> v, single |-> TRUE, maxNodes |-> MaxTreeNodes]

----------------------------------------------------------------------------
(* The state machine.                                                      *)

NoFlat == [err |-> "none", map |-> EmptyDict]

InitWith(d) ==
    /\ doc = d
    /\ nodes = <<>>
    /\ _elem = <<>>
    /\ _last = 0
    /\ _tail = FALSE
    /\ _data = <<>>
    /\ pc = "feeding"
    /\ err = "none"
    /\ msg = ""
    /\ _root = 0
    /\ flat = NoFlat
    /\ conv = Conversion(<<>>)

Init == InitWith(BuildDocs)

\* Whether match m makes feed create an Element.
opens(m) == ~startswith(m.TAG, "/")

\* Whether a document of doc may go on with match m.
MayFollow(m) ==
    opens(m) =>
        /\ Len(nodes) < doc.maxNodes
        /\ doc.single /\ _elem = <<>> => nodes = <<>>

\* The parser is local to OFXTree.parse: once parse raises, only the
\* exception is left of it.
Raised(r) ==
    /\ nodes' = <<>>
    /\ _elem' = <<>>
    /\ _last' = 0
    /\ _tail' = FALSE
    /\ _data' = <<>>
    /\ err' = r.err
    /\ msg' = r.msg
    /\ pc' = "failed"

\* One iteration of the loop of TreeBuilder.feed, on the next match m.
Feed(m) ==
    /\ pc = "feeding"
    /\ MayFollow(m)
    /\ LET r == feedMatch(Builder, m)
       IN  IF r.err # "none" THEN Raised(r)
           ELSE /\ nodes' = r.nodes
                /\ _elem' = r.elem
                /\ _last' = r.last
                /\ _tail' = r.tail
                /\ _data' = r.data
                /\ UNCHANGED <<err, msg, pc>>
    /\ UNCHANGED <<doc, _root, flat, conv>>

\* OFXTree.parse with the failure of close ignored: the root is assigned
\* from whatever the builder holds.
CloseAssignsAnyway ==
    /\ pc = "feeding"
    /\ LET r == close(Builder)
       IN  IF r.err # "none" THEN Raised(r) /\ _root' = Len(nodes)
           ELSE /\ _root' = r.last
                /\ pc' = "parsed"
                /\ UNCHANGED <<nodes, _elem, _last, _tail, _data, err, msg>>
    /\ UNCHANGED <<doc, flat, conv>>

\* The end of OFXTree.parse: self._root = parser.close()
Close ==
    /\ pc = "feeding"
    /\ LET r == close(Builder)
       IN  IF r.err # "none" THEN Raised(r) /\ UNCHANGED _root
           ELSE /\ _root' = r.last
                /\ pc' = "parsed"
                /\ UNCHANGED <<nodes, _elem, _last, _tail, _data, err, msg>>
    /\ UNCHANGED <<doc, flat, conv>>

\* Element._flatten, called on the root of the parsed tree (every subtree
\* is the parsed tree of a shorter document).
Flatten ==
    /\ pc = "parsed"
    /\ flat' = _flatten(nodes, _root)
    /\ pc' = "flattened"
    /\ UNCHANGED <<doc, nodes, _elem, _last, _tail, _data, err, msg, _root,
                   conv>>

\* Element.convert(strict), called on the root of the parsed tree; the
\* aggregate class rejects the attributes of Element bad (0: of none).
Convert(strict) ==
    /\ pc = "parsed"
    /\ \E bad \in {0} \cup constructed(nodes, _root) :
          conv' = convert([Conversion(nodes) EXCEPT !.strict = strict],
                         _root, strict, bad)
    /\ nodes' = conv'.nodes
    /\ pc' = "converted"
    /\ UNCHANGED <<doc, _elem, _last, _tail, _data, err, msg, _root, flat>>

\* OFXTree.convert(strict), called once parse has returned or raised: it
\* raises ValueError when parse has assigned no _root, and hands the tree
\* to OFXResponse otherwise.
OFXTreeConvert(strict) ==
    /\ pc \in {"parsed", "failed"}
    /\ IF _root = 0
       THEN /\ err' = "ValueError"
            /\ msg' = "Must first call parse() to have data to convert"
            /\ pc' = "refused"
       ELSE /\ pc' = "response"
            /\ UNCHANGED <<err, msg>>
    /\ UNCHANGED <<doc, nodes, _elem, _last, _tail, _data, _root, flat, conv>>

Next ==
    \/ \E m \in Matches(doc.vocab) : Feed(m)
    \/ Close
    \/ Flatten
    \/ \E strict \in BOOLEAN : Convert(strict)
    \/ \E strict \in BOOLEAN : OFXTreeConvert(strict)

\* Tag soup through the builder.
Spec == Init /\ [][Next]_vars

\* Trees for _flatten.
SpecFlatten == InitWith(TreeDocs(FlattenVocab)) /\ [][Next]_vars

\* Trees with private tags for _flatten.
SpecPrivate == InitWith(TreeDocs(PrivateVocab)) /\ [][Next]_vars

\* Trees for the currency handling of convert.
SpecCurrency == InitWith(TreeDocs(CurrencyVocab)) /\ [][Next]_vars
SpecList == InitWith(TreeDocs(ListVocab)) /\ [][Next]_vars

----------------------------------------------------------------------------
(* What the properties below speak of.                                     *)

\* The Elements of the tree, and those that are children of n.
Elements == 1..Len(nodes)
Kids(n) == { c \in Elements : nodes[c].parent = n }

\* Whether Element d lies below Element n in tree ns.
RECURSIVE Below(_, _, _)
Below(ns, d, n) ==
    /\ ns[d].parent > 0
    /\ \/ ns[d].parent = n
       \/ Below(ns, ns[d].parent, n)

\* A data-bearing leaf, an aggregate, a private tag.
IsLeaf(c) == dataOf(nodes, c) # ""
IsAggregate(c) == dataOf(nodes, c) = ""
IsPrivate(c) == Contains(nodes[c].tag, ".")

\* The leaves below n that _flatten is to report, and their keys.
PublicLeaves(n) ==
    { l \in Elements : Below(nodes, l, n) /\ IsLeaf(l) /\ ~IsPrivate(l) }
KeyOf(l) == lower(nodes[l].tag)

\* No two leaves below n have the same key.
CollisionFree(n) ==
    \A l1, l2 \in PublicLeaves(n) : KeyOf(l1) = KeyOf(l2) => l1 = l2

\* The map from the key of every leaf below n to its text.
LeafMap(n) ==
    [k \in { KeyOf(l) : l \in PublicLeaves(n) } |->
        dataOf(nodes, CHOOSE l \in PublicLeaves(n) : KeyOf(l) = k)]

\* The top of the stack of open Elements (0: the stack is empty).
Top == IF _elem = <<>> THEN 0 ELSE _elem[Len(_elem)]

\* A match as feed classifies it.
TextOf(m) == strip(IF m.TEXT = None THEN "" ELSE m.TEXT)
IsDataLeaf(m) == TextOf(m) # "" /\ ~startswith(m.TAG, "/")
IsAggregateClose(m) == TextOf(m) = "" /\ startswith(m.TAG, "/")
IsClosingWithText(m) == TextOf(m) # "" /\ startswith(m.TAG, "/")

----------------------------------------------------------------------------
(* _flatten and duplicate keys.                                            *)

\* C1: when two distinct children of a node are data leaves whose tags
\* lower to the same key, _flatten on the node fails.
C1_DuplicateLeavesFail ==
    pc = "flattened" =>
        ((\E c, d \in Kids(_root) :
             /\ c # d
             /\ IsLeaf(c) /\ IsLeaf(d)
             /\ ~IsPrivate(c) /\ ~IsPrivate(d)
             /\ KeyOf(c) = KeyOf(d))
         => flat.err # "none")

\* C2: when the flattenings of two distinct child aggregates of a node hold
\* the same key, _flatten on the node fails.
C2_SiblingAggregatesFail ==
    pc = "flattened" =>
        ((\E a, b \in Kids(_root) :
             /\ a # b
             /\ IsAggregate(a) /\ IsAggregate(b)
             /\ _flatten(nodes, a).err = "none"
             /\ _flatten(nodes, b).err = "none"
             /\ DOMAIN _flatten(nodes, a).map
                    \cap DOMAIN _flatten(nodes, b).map # {})
         => flat.err # "none")

\* The case of C3: a key comes from a leaf child of the root and from the
\* flattening of an aggregate child of the root.
LeafMeetsAggregate ==
    \E c, a \in Kids(_root) :
        /\ IsLeaf(c) /\ ~IsPrivate(c)
        /\ IsAggregate(a)
        /\ _flatten(nodes, a).err = "none"
        /\ KeyOf(c) \in DOMAIN _flatten(nodes, a).map

\* C3: when a key comes both from a data-leaf child that is not private and
\* from the flattening of a child aggregate, _flatten on the node fails
\* and returns no merged map.
C3_CrossLevelFails ==
    pc = "flattened" /\ LeafMeetsAggregate => flat.err = "AssertionError"

\* C3's case is reached: a leaf B beside an aggregate holding a leaf B.
C3_Witness ==
    /\ pc = "flattened"
    /\ LeafMeetsAggregate
    /\ nodes[_root].tag = "A"
    /\ \E c \in Kids(_root) : nodes[c].tag = "B" /\ nodes[c].text = "1"
    /\ flat.err = "AssertionError"

\* C8: on a tree with no two leaves of the same key, _flatten returns the
\* map from the lowered tag of every leaf below the node that is not
\* private to the leaf's text, and nothing else.
C8_FlattenIsLeafMap ==
    pc = "flattened" /\ CollisionFree(_root) =>
        flat.err = "none" /\ flat.map = LeafMap(_root)

----------------------------------------------------------------------------
(* Private tags.                                                           *)

\* The private leaves of the tree below its root.
PrivateLeaves ==
    { l \in Elements : Below(nodes, l, _root) /\ IsLeaf(l) /\ IsPrivate(l) }

\* Tree ns without its Elements of set gone.
RECURSIVE Without(_, _)
Without(ns, gone) ==
    IF gone = {} THEN ns
    ELSE LET l == CHOOSE x \in gone : TRUE
         IN  Without(remove(ns, l), gone \ {l})

\* What a data leaf adds to builder b: one Element of that tag and text
\* under the top of the stack, and nothing else.
LeafAdded(b, r, m) ==
    /\ r.err = "none"
    /\ r.nodes = Append(b.nodes,
                        [Element(m.TAG, IF b.elem = <<>> THEN 0
                                        ELSE b.elem[Len(b.elem)])
                            EXCEPT !.text = TextOf(m)])
    /\ r.elem = b.elem

\* C9: a data leaf with a dot in its tag becomes a child like any other
\* leaf; _flatten returns what it returns on the tree without the private
\* leaves, error or map, and no key of the map is a private tag.
C9_PrivateLeavesDropped ==
    /\ pc = "feeding" =>
          \A m \in Matches(doc.vocab) :
              IsDataLeaf(m) /\ Contains(m.TAG, ".") =>
                  LeafAdded(Builder, feedMatch(Builder, m), m)
    /\ pc = "flattened" =>
          /\ flat = _flatten(Without(nodes, PrivateLeaves), _root)
          /\ \A l \in PrivateLeaves : KeyOf(l) \notin DOMAIN flat.map

\* C9's case is reached: a private leaf beside a leaf, and only the latter
\* is in the map.
C9_Witness ==
    /\ pc = "flattened"
    /\ \E l \in Kids(_root) : l \in PrivateLeaves /\ nodes[l].tag = "I.X"
    /\ \E c \in Kids(_root) : nodes[c].tag = "B"
    /\ flat = [err |-> "none", map |-> ("b" :> "1")]

----------------------------------------------------------------------------
(* The builder and its errors.                                             *)

\* The name an aggregate-close match ends.
Closed(m) == SubSeq(m.TAG, 2, Len(m.TAG))

\* Builder b with the fault ET.TreeBuilder._flush asserts against: text is
\* pending for an Element that already has its text.
Faulty(b) ==
    [b EXCEPT !.data = <<"x">>, !.tail = FALSE, !.nodes[b.last].text = "x"]

\* C5: an aggregate-close match whose name is not the tag of the innermost
\* open aggregate fails with the end tag mismatch ParseError; and a failure
\* of the builder's own assertions stays an AssertionError.
C5_MismatchIsParseError ==
    pc = "feeding" =>
        /\ \A m \in Matches(doc.vocab) :
              IsAggregateClose(m) /\ Top # 0 /\ nodes[Top].tag # Closed(m) =>
                  LET r == feedMatch(Builder, m)
                  IN  /\ r.err = "ParseError"
                      /\ Contains(r.msg, "end tag mismatch")
                      /\ ~Contains(r.msg, "internal error")
        /\ Top # 0 =>
              LET r == end(Faulty(Builder), nodes[Top].tag)
              IN  /\ r.err = "AssertionError"
                  /\ Contains(r.msg, "internal error")

\* C5's case is reached: </B> arrived while <A> was the innermost open
\* aggregate, and parse raised the ParseError.
C5_Witness ==
    /\ pc = "failed"
    /\ err = "ParseError"
    /\ msg = "end tag mismatch (expected A, got B) <//B>"

\* The match of pair p of the vocabulary, with its closing fragment or not.
MatchOf(p, closed) ==
    [TAG |-> p[1], TEXT |-> p[2],
     closeTag |-> IF closed THEN closeTagOf(p[1]) ELSE None]

\* The root of the tree builder b is building (0: it has made no Element).
RootOf(b) == IF b.elem # <<>> THEN b.elem[1] ELSE b.last

\* C6: a data leaf with its closing tag and the same leaf without it leave
\* the same builder (tree, stack and all) and the same flattened map.
C6_ClosingTagOptional ==
    pc = "feeding" =>
        \A p \in doc.vocab :
            IsDataLeaf(MatchOf(p, TRUE)) /\ MayFollow(MatchOf(p, TRUE)) =>
                LET with == feedMatch(Builder, MatchOf(p, TRUE))
                    without == feedMatch(Builder, MatchOf(p, FALSE))
                IN  /\ with = without
                    /\ without.err = "none"
                    /\ without.elem = _elem
                    /\ _flatten(with.nodes, RootOf(with))
                           = _flatten(without.nodes, RootOf(without))

\* C6's case is reached: a leaf was fed under an open aggregate, which is
\* still the top of the stack.
C6_Witness ==
    /\ pc = "feeding"
    /\ Top # 0
    /\ \E l \in Kids(Top) : nodes[l].tag = "B" /\ nodes[l].text = "1"
    /\ _last \in Kids(Top)

\* C7: a match whose tag begins with "/" and whose text is not blank fails
\* with the trailing-text ParseError, whatever is open, and the tree and
\* the stack are as they were when it is raised.
C7_ClosingTagWithText ==
    pc = "feeding" =>
        \A m \in Matches(doc.vocab) :
            IsClosingWithText(m) =>
                LET r == feedMatch(Builder, m)
                IN  /\ r.err = "ParseError"
                    /\ Contains(r.msg, "is a closing tag, but has trailing text")
                    /\ r.nodes = nodes
                    /\ r.elem = _elem
                    /\ r.last = _last

\* C7's case is reached: </A>1 arrived and parse raised the ParseError.
C7_Witness ==
    /\ pc = "failed"
    /\ err = "ParseError"
    /\ msg = "</A> is a closing tag, but has trailing text: '1'"

----------------------------------------------------------------------------
(* convert and the currency aggregates.                                    *)

\* Whether an aggregate called tag lies below the root.
HasAggregate(tag) ==
    \E a \in Elements :
        Below(nodes, a, _root) /\ IsAggregate(a) /\ nodes[a].tag = tag

\* The calls convert made of the class of the root.
RootCalls == { i \in 1..Len(conv.calls) : conv.calls[i].node = _root }

\* C4: convert on an aggregate of the ORIGCURRENCY family that holds both a
\* CURRENCY and an ORIGCURRENCY aggregate fails with the ParseError, and
\* the class of the aggregate is not called.
C4_BothCurrenciesFail ==
    pc = "converted" /\ nodes[_root].tag \in ORIGCURRENCY
            /\ HasAggregate("CURRENCY") /\ HasAggregate("ORIGCURRENCY") =>
        conv.err = "ParseError" /\ RootCalls = {}

\* C10: when convert calls the class of an aggregate of the ORIGCURRENCY
\* family, curtype is the tag of the one currency aggregate it holds, and
\* no name when it holds neither.
C10_CurtypeNamesCurrency ==
    pc = "converted" /\ nodes[_root].tag \in ORIGCURRENCY =>
        \A i \in RootCalls :
            LET curtype == conv.calls[i].attributes["curtype"]
            IN  /\ HasAggregate("CURRENCY") /\ ~HasAggregate("ORIGCURRENCY")
                      => curtype = "CURRENCY"
                /\ HasAggregate("ORIGCURRENCY") /\ ~HasAggregate("CURRENCY")
                      => curtype = "ORIGCURRENCY"
                /\ ~HasAggregate("ORIGCURRENCY") /\ ~HasAggregate("CURRENCY")
                      => curtype = None

\* C11: every call of an aggregate class that convert(strict) makes, the
\* calls for the items of the lists of an MFINFO included, passes the
\* strict the caller passed to the outermost convert.
C11_StrictReachesEveryCall ==
    pc = "converted" =>
        \A i \in 1..Len(conv.calls) : conv.calls[i].strict = conv.strict

\* The tags of the lists convert strips from an MFINFO.
ListTags == {"MFASSETCLASS", "FIMFASSETCLASS"}

\* C15: when convert on an MFINFO gets as far as _flatten, no MFASSETCLASS
\* and no FIMFASSETCLASS is a child of the MFINFO any more, however many
\* of them the MFINFO held.
C15_ListsGoneBeforeFlatten ==
    pc = "converted" /\ nodes[_root].tag = "MFINFO" /\ conv.err = "none" =>
        \A c \in Kids(_root) : nodes[c].tag \notin ListTags

----------------------------------------------------------------------------
(* The shape of the tree under construction.                               *)

\* C12: in every state of the builder, an Element with text has no child,
\* and an Element with a child has no text.
C12_TextOrChildren ==
    /\ \A n \in Elements : nodes[n].text \notin {None, ""} => Kids(n) = {}
    /\ \A n \in Elements : Kids(n) # {} => nodes[n].text = None

\* C12's case is reached: a leaf with text, and a later Element that went
\* under the leaf's parent, not under the leaf.
C12_Witness ==
    /\ pc = "feeding"
    /\ \E n \in Elements : \E c, d \in Kids(n) :
          c < d /\ nodes[c].text = "1" /\ nodes[n].text = None

\* An aggregate-open match, with or without its closing fragment.
IsAggregateOpen(m) == TextOf(m) = "" /\ opens(m)

\* C14: an aggregate-open match with its closing fragment adds one Element
\* with no text and no child under the top of the stack (or as a root when
\* the stack is empty), leaves the stack as it was, and _flatten on the
\* new Element returns the empty map.
C14_InlineCloseAddsEmptyNode ==
    pc = "feeding" =>
        \A m \in Matches(doc.vocab) :
            IsAggregateOpen(m) /\ m.closeTag # None =>
                LET r == feedMatch(Builder, m)
                    id == Len(nodes) + 1
                IN  /\ r.err = "none"
                    /\ r.nodes = Append(nodes, Element(m.TAG, Top))
                    /\ r.elem = _elem
                    /\ r.last = id
                    /\ children(r.nodes, id) = <<>>
                    /\ _flatten(r.nodes, id) = NoFlat

\* C14's case is reached: an aggregate opened and closed under an open
\* aggregate, with no text and no child.
C14_Witness ==
    /\ pc = "feeding"
    /\ Top # 0 /\ _last # 0 /\ _last # Top /\ _tail
    /\ nodes[_last].parent = Top
    /\ nodes[_last].text = None
    /\ Kids(_last) = {}

\* C16: a data-leaf match adds one Element, with the stripped text, under
\* the Element on top of the stack (as a root when the stack is empty);
\* the stack and every other Element are as they were.
C16_LeafLeavesStack ==
    pc = "feeding" =>
        \A m \in Matches(doc.vocab) :
            IsDataLeaf(m) =>
                LET r == feedMatch(Builder, m)
                IN  /\ LeafAdded(Builder, r, m)
                    /\ \A n \in Elements : r.nodes[n] = nodes[n]
                    /\ r.nodes[Len(nodes) + 1].text = strip(m.TEXT)
                    /\ children(r.nodes, Top) =
                           children(nodes, Top) \o <<Len(nodes) + 1>>

\* C16's case is reached: under an open aggregate that had a child, a leaf
\* whose text was stripped.
C16_Witness ==
    /\ pc = "feeding"
    /\ Top # 0 /\ _last # Top /\ _last # 0
    /\ nodes[_last].parent = Top
    /\ nodes[_last].text = "1"
    /\ Cardinality(Kids(Top)) > 1

\* C17: a match with no text, or blank text, and a tag that does not start
\* with "/" opens an aggregate: without a closing fragment, the new Element
\* is pushed and is the top of the stack.  An Element on the stack stays
\* there, later Elements going under the top of the stack, until the
\* aggregate-close match of its tag pops it.
C17_AggregateStaysOpen ==
    pc = "feeding" =>
        \A m \in Matches(doc.vocab) :
            LET r == feedMatch(Builder, m)
                id == Len(nodes) + 1
            IN  /\ IsAggregateOpen(m) /\ m.closeTag = None =>
                      /\ r.err = "none"
                      /\ r.nodes = Append(nodes, Element(m.TAG, Top))
                      /\ r.elem = Append(_elem, id)
                      /\ r.last = id
                /\ r.err = "none" /\ IsAggregateClose(m) =>
                      /\ _elem # <<>>
                      /\ nodes[Top].tag = Closed(m)
                      /\ r.elem = SubSeq(_elem, 1, Len(_elem) - 1)
                      /\ r.nodes = nodes
                /\ r.err = "none" /\ ~IsAggregateClose(m) =>
                      /\ Len(r.elem) >= Len(_elem)
                      /\ SubSeq(r.elem, 1, Len(_elem)) = _elem
                      /\ r.nodes[id].parent = Top

\* C17's case is reached: an aggregate opened under an open aggregate is
\* the top of the stack, with the other below it.
C17_Witness ==
    /\ pc = "feeding"
    /\ Len(_elem) = 2
    /\ _last = Top /\ ~_tail
    /\ nodes[Top].parent = _elem[1]
    /\ nodes[Top].text = None

\* C18: an aggregate-close match that finds no aggregate open makes feed
\* fail, and close fails while an aggregate is open; so parse has a tree
\* only when the stack is empty, and none after a failure.
C18_OnlyWellNestedParses ==
    /\ pc = "feeding" =>
          /\ \A m \in Matches(doc.vocab) :
                IsAggregateClose(m) /\ _elem = <<>> =>
                    feedMatch(Builder, m).err # "none"
          /\ _elem # <<>> => close(Builder).err # "none"
    /\ pc = "parsed" => _elem = <<>> /\ _root \in Elements
    /\ pc = "failed" => _root = 0

\* C18's case is reached: parse failed at the end of a document that left
\* an aggregate open.
C18_Witness ==
    /\ pc = "failed"
    /\ err = "AssertionError"
    /\ msg = "missing end tags"
    /\ _root = 0

\* C19: the tree parse returns holds every Element feed made: each is the
\* root or lies below it, also when the document has more than one
\* top-level element.
C19_EveryNodeInTree ==
    pc = "parsed" =>
        \A n \in Elements : n = _root \/ Below(nodes, n, _root)

\* C20: a data-leaf match never fails: the Element start pushes is the top
\* of the stack and has the tag end is called with, so end pops it without
\* a mismatch, and the flush of its text trips no assertion.
C20_LeafNeverFails ==
    pc = "feeding" =>
        \A m \in Matches(doc.vocab) :
            IsDataLeaf(m) =>
                LET s == data(start(Builder, m.TAG), TextOf(m))
                    r == feedMatch(Builder, m)
                IN  /\ s.err = "none"
                    /\ s.elem = Append(_elem, Len(nodes) + 1)
                    /\ s.nodes[Len(nodes) + 1].tag = m.TAG
                    /\ r.err = "none"
                    /\ r.last = Len(nodes) + 1
                    /\ r.elem = _elem

\* C20's case is reached: a data leaf was fed right after another Element
\* was ended, and feed goes on.
C20_Witness ==
    /\ pc = "feeding"
    /\ _last > 1 /\ _tail /\ err = "none"
    /\ nodes[_last].text = "1"
    /\ nodes[_last - 1].parent = nodes[_last].parent

====
